---- MODULE Spec2Model ----
(***************************************************************************)
(* The player-controlled car of StreetRacer (src/lib/player.py): the       *)
(* construction of a Player from a vehicle configuration and the per-tick  *)
(* update() of its velocity, engine RPM, gearbox, position and heading.    *)
(*                                                                         *)
(* Python floats are modelled in fixed point on integers:                  *)
(*   velocity            m/s                                               *)
(*   deltaTime, shift_time   seconds                                       *)
(*   forces              newtons                                           *)
(*   engine_RPM          1/RPM_SCALE revolutions per minute                *)
(*   angle               degrees                                           *)
(*   posX, posY          pixels, relative to the initial rect centre       *)
(*   gear ratios, transmission_base, wheel radius, wheelbase,              *)
(*   static_friction, front_area, drag_coefficient   tenths                *)
(* Every float division rounds to the nearest grid value (RoundDiv).       *)
(***************************************************************************)
EXTENDS Integers, Sequences, FiniteSets, TLC

VARIABLES
    pc,                   \* "init" | "alive" | "failed" (__init__ raised) | "raised" (update raised)
    configuration,        \* the configuration dictionary handed to Player(...)
    containers,           \* members of the shared sprite group Player.containers
    raised,               \* the exception that left __init__ or update, or "none"
    angle, posX, posY,
    acceleration, steering,
    velocity, engine_RPM, gear, shift_time,
    torque_interpolation, power_interpolation,
    ticks,                \* number of update() calls made so far
    pre,                  \* the vehicle as the latest update() call found it
    twin                  \* a second Player built from the same configuration

vars == <<pc, configuration, containers, raised, angle, posX, posY, acceleration,
          steering, velocity, engine_RPM, gear, shift_time, torque_interpolation,
          power_interpolation, ticks, pre, twin>>

body == <<angle, posX, posY, velocity, engine_RPM, gear, shift_time>>

------------------------------------------------------------------------------
(* Bounds of the exploration *)

MaxTicks == 3
MaxVelocity == 14
RPM_SCALE == 4

(* Program constants *)

AIR_DENSITY_MILLI == 1225
PPM_NUM == 7100
PPM_DEN == 429
EARTH_ACCELERATION_CENTI == 981
SECONDS_IN_MINUTE == 60
PI_NUM == 22
PI_DEN == 7
INITIAL_RPM == 5000
NEUTRAL_RATIO == 100

------------------------------------------------------------------------------
(* Arithmetic helpers *)

Abs(x) == IF x < 0 THEN -x ELSE x

\* a / b on floats, rounded to the nearest integer (b > 0)
RoundDiv(a, b) ==
    IF a >= 0 THEN (a + b \div 2) \div b ELSE -(((-a) + b \div 2) \div b)

\* 1000 * sin(d degrees) for d = 0..90
SinTable ==
    <<0, 17, 35, 52, 70, 87, 105, 122, 139, 156, 174, 191, 208, 225, 242, 259,
      276, 292, 309, 326, 342, 358, 375, 391, 407, 423, 438, 454, 469, 485, 500,
      515, 530, 545, 559, 574, 588, 602, 616, 629, 643, 656, 669, 682, 695, 707,
      719, 731, 743, 755, 766, 777, 788, 799, 809, 819, 829, 839, 848, 857, 866,
      875, 883, 891, 899, 906, 914, 921, 927, 934, 940, 946, 951, 956, 961, 966,
      970, 974, 978, 982, 985, 988, 990, 993, 995, 996, 998, 999, 999, 1000, 1000>>

\* 1000 * sin(radians(d))
SinDeg(d) ==
    LET m == d % 360
    IN  IF m <= 90 THEN SinTable[m + 1]
        ELSE IF m <= 180 THEN SinTable[180 - m + 1]
        ELSE IF m <= 270 THEN -SinTable[m - 180 + 1]
        ELSE -SinTable[360 - m + 1]

\* 1000 * cos(radians(d))
CosDeg(d) == SinDeg(d + 90)

\* degrees(asin(num / den)) for 0 <= num <= den, den > 0: the largest whole
\* angle whose sine is at most num / den
AsinDeg(num, den) ==
    Cardinality({d \in 1..90 : SinTable[d + 1] * den <= 1000 * num})

\* Python's clamp(val, mini, maxi)
clamp(val, mini, maxi) ==
    IF val < mini THEN mini ELSE IF val > maxi THEN maxi ELSE val

\* Python sequence indexing lst[i] of a sequence of length n: valid when
\* -n <= i < n, a negative index counting from the end
IndexOk(n, i) == -n <= i /\ i < n

ListAt(lst, i) == IF i >= 0 THEN lst[i + 1] ELSE lst[Len(lst) + i + 1]

------------------------------------------------------------------------------
(* Vehicle configurations (the JSON dictionary handed to the constructor) *)

\* A slow, heavy vehicle with three gears
Truck ==
    [full_name |-> "Truck",
     mass |-> 1000, min_rpm |-> 1000, max_rpm |-> 6000,
     torque_samples |-> <<10, 15, 15, 10>>,
     power_samples |-> <<1, 5, 8, 7>>,
     sampling_start |-> 1000, sampling_precision |-> 2000,
     front_area |-> 163, drag_coefficient |-> 10,
     wheelbase |-> 27,
     radius |-> 3, static_friction |-> 3, max_turning_angle |-> 35,
     transmission |-> <<120, 60, 40>>, transmission_base |-> 40,
     transmission_shift_time |-> 2]

\* The same vehicle with an idle speed below 0.9 * max_rpm * ratio[1] / 100
LowIdle == [Truck EXCEPT !.full_name = "LowIdle", !.min_rpm = 500]

\* The same vehicle with a rev limit below the RPM a new Player starts with
LowRev == [Truck EXCEPT !.full_name = "LowRev", !.max_rpm = 4000]

\* The same vehicle with wheels that can turn to a right angle
WideSteer == [Truck EXCEPT !.full_name = "WideSteer", !.max_turning_angle = 90]

\* A lighter-geared vehicle with two gears and a quick gearbox
Kart ==
    [Truck EXCEPT !.full_name = "Kart", !.torque_samples = <<10, 15, 20, 15>>,
                  !.transmission = <<120, 90>>, !.transmission_shift_time = 1]

\* The same vehicle with one power sample missing
ShortPower == [Truck EXCEPT !.full_name = "ShortPower", !.power_samples = <<1, 5, 8>>]

\* The same vehicle with one torque sample missing
ShortTorque ==
    [Truck EXCEPT !.full_name = "ShortTorque", !.torque_samples = <<10, 15, 15>>]

\* A light vehicle whose torque curve is sampled at every RPM around a sharp
\* step, so that neighbouring table entries give visibly different forces
Peaky ==
    [Truck EXCEPT !.full_name = "Peaky", !.mass = 100,
                  !.torque_samples = <<4, 3, 1, 1>>,
                  !.sampling_start = 4580, !.sampling_precision = 1]

\* The same vehicle with a slow gearbox
SlowBox == [Truck EXCEPT !.full_name = "SlowBox", !.transmission_shift_time = 4]

Configs == {Truck, Kart, LowIdle, LowRev, WideSteer, ShortPower, ShortTorque}

------------------------------------------------------------------------------
(* Exceptions *)

NoError == [type |-> "none", message |-> <<>>]

Error(type) == [type |-> type, message |-> <<>>]

ConfigError(cfg) ==
    [type |-> "Exception",
     message |-> <<cfg.full_name, " has incosistent amount of torque and power samples">>]

------------------------------------------------------------------------------
(* Engine curves *)

\* self.power_interpolation = [] / self.torque_interpolation = []
EmptyTable == [n |-> 0, x |-> <<>>, y |-> <<>>]

\* The interpolant through (x[k], y[k]) evaluated at p, extrapolating outside
\* the sampled range.  scipy's cubic interpolant is modelled by the
\* piecewise-linear one through the same points.
InterpAt(x, y, p) ==
    IF Len(x) = 1 THEN y[1]
    ELSE LET below == {k \in 1..(Len(x) - 1) : x[k] <= p}
             k == IF below = {} THEN 1
                  ELSE CHOOSE j \in below : \A i \in below : i <= j
         IN  y[k] + RoundDiv((y[k + 1] - y[k]) * (p - x[k]), x[k + 1] - x[k])

\* interpolate_spline(x, y, range(start, end)): the table is kept as the
\* interpolant and the number of points it was evaluated at
interpolate_spline(x, y, start, end) ==
    [n |-> IF end > start THEN end - start ELSE 0, x |-> x, y |-> y]

\* table[i] for a valid Python index i
TableAt(table, i) ==
    InterpAt(table.x, table.y, IF i >= 0 THEN i ELSE table.n + i)

\* samples_x of _interpolate_power_and_torque
samples_x(cfg) ==
    [i \in 1..Len(cfg.torque_samples) |->
        cfg.sampling_precision * (i - 1) + cfg.sampling_start]

\* A variant of the length check that only rejects a short torque list
interpolate_error_shorter(cfg) ==
    IF Len(cfg.torque_samples) < Len(cfg.power_samples)
    THEN ConfigError(cfg) ELSE NoError

\* _interpolate_power_and_torque: the exception it raises, or NoError
interpolate_error(cfg) ==
    IF Len(cfg.torque_samples) # Len(cfg.power_samples)
    THEN ConfigError(cfg) ELSE NoError

build_torque(cfg) ==
    interpolate_spline(samples_x(cfg), cfg.torque_samples, 0, cfg.max_rpm + 1)

\* A variant of the power table that stops one RPM short of max_rpm
build_power_short(cfg) ==
    interpolate_spline(samples_x(cfg), cfg.power_samples, 0, cfg.max_rpm)

build_power(cfg) ==
    interpolate_spline(samples_x(cfg), cfg.power_samples, 0, cfg.max_rpm + 1)

------------------------------------------------------------------------------
(* Construction *)

\* no second Player has been constructed
NoTwin ==
    [pc |-> "init", behind |-> FALSE, raised |-> NoError,
     torque_interpolation |-> EmptyTable, power_interpolation |-> EmptyTable,
     velocity |-> 0, engine_RPM |-> 0, gear |-> 0, shift_time |-> 0,
     posX |-> 0, posY |-> 0, angle |-> 0]

\* before Player(configuration, screenrect) is called
NotConstructed ==
    /\ pc = "init"
    /\ containers = {}
    /\ raised = NoError
    /\ angle = 0 /\ posX = 0 /\ posY = 0
    /\ acceleration = 0 /\ steering = 0
    /\ velocity = 0 /\ engine_RPM = 0 /\ gear = 0 /\ shift_time = 0
    /\ torque_interpolation = EmptyTable
    /\ power_interpolation = EmptyTable
    /\ ticks = 0
    /\ pre = [deltaTime |-> 0, velocity |-> 0, engine_RPM |-> 0, gear |-> 0,
              shift_time |-> 0, angle |-> 0, posX |-> 0, posY |-> 0]
    /\ twin = NoTwin

Init == configuration \in Configs /\ NotConstructed

\* Player.__init__(configuration, screenrect)
Construct ==
    /\ pc = "init"
    /\ containers' = containers \cup {"player"}
    /\ angle' = 0 /\ posX' = 0 /\ posY' = 0
    /\ acceleration' = 0 /\ steering' = 0
    /\ velocity' = 0
    /\ engine_RPM' = INITIAL_RPM * RPM_SCALE
    /\ gear' = 1
    /\ shift_time' = 0
    /\ raised' = interpolate_error(configuration)
    /\ IF interpolate_error(configuration) = NoError
       THEN /\ torque_interpolation' = build_torque(configuration)
            /\ power_interpolation' = build_power(configuration)
            /\ pc' = "alive"
       ELSE /\ torque_interpolation' = EmptyTable
            /\ power_interpolation' = EmptyTable
            /\ pc' = "failed"
    /\ UNCHANGED <<configuration, ticks, pre, twin>>

\* Player.accelerate(direction)
accelerate(direction) == acceleration' = direction

\* Player.rotate(direction)
rotate(direction) == steering' = direction

------------------------------------------------------------------------------
(* The drivetrain *)

\* self.transmission = [100] + configuration["transmission"], in tenths
transmission(cfg) == <<NEUTRAL_RATIO * 10>> \o cfg.transmission

\* Python's round() of the engine RPM: the nearest integer, a tie going to
\* the even one
round(rpm) ==
    LET q == IF rpm >= 0 THEN rpm \div RPM_SCALE
             ELSE -(((-rpm) + RPM_SCALE - 1) \div RPM_SCALE)
        r == rpm - q * RPM_SCALE
    IN  IF 2 * r > RPM_SCALE THEN q + 1
        ELSE IF 2 * r < RPM_SCALE THEN q
        ELSE IF q % 2 = 0 THEN q ELSE q + 1

\* Python's int() of the engine RPM: truncation towards zero
int(rpm) ==
    IF rpm >= 0 THEN rpm \div RPM_SCALE ELSE -((-rpm) \div RPM_SCALE)

\* Player.is_shifting
is_shifting(st) == st > 0

\* Player.get_torque: the exception its indexing raises, or NoError
get_torque_error(cfg, table, rpm, g) ==
    IF ~IndexOk(table.n, int(rpm)) THEN Error("IndexError")
    ELSE IF ~IndexOk(Len(transmission(cfg)), g) THEN Error("IndexError")
    ELSE NoError

\* A variant of get_torque that reads the engine RPM from one place shared
\* by all Player objects
get_torque_shared(cfg, table, rpm, g) ==
    TableAt(table, int(engine_RPM)) * ListAt(transmission(cfg), g)
        * cfg.transmission_base

\* Player.get_torque, in hundredths of a newton metre
get_torque(cfg, table, rpm, g) ==
    TableAt(table, int(rpm)) * ListAt(transmission(cfg), g) * cfg.transmission_base

\* fs * self.mass * EARTH_ACCELERATION, in newtons
max_friction(cfg) ==
    RoundDiv(cfg.static_friction * cfg.mass * EARTH_ACCELERATION_CENTI, 1000)

\* A variant of the traction force that is not scaled by the acceleration
\* intent
traction_unscaled(cfg, table, acc, v, rpm, g, st) ==
    LET engine == acc > 0 \/ v < 0
    IN  IF engine /\ get_torque_error(cfg, table, rpm, g) # NoError
        THEN [err |-> get_torque_error(cfg, table, rpm, g), F |-> 0]
        ELSE IF engine /\ cfg.radius = 0
        THEN [err |-> Error("ZeroDivisionError"), F |-> 0]
        ELSE LET F0 == IF engine
                       THEN RoundDiv(get_torque(cfg, table, rpm, g), 10 * cfg.radius)
                       ELSE max_friction(cfg)
             IN  [err |-> NoError,
                  F |-> IF is_shifting(st) /\ acc > 0 THEN 0 ELSE F0]

\* A variant of the traction force that keeps the drivetrain engaged during
\* a gear change
traction_engaged(cfg, table, acc, v, rpm, g, st) ==
    LET engine == acc > 0 \/ v < 0
    IN  IF engine /\ get_torque_error(cfg, table, rpm, g) # NoError
        THEN [err |-> get_torque_error(cfg, table, rpm, g), F |-> 0]
        ELSE IF engine /\ cfg.radius = 0
        THEN [err |-> Error("ZeroDivisionError"), F |-> 0]
        ELSE LET F0 == IF engine
                       THEN RoundDiv(get_torque(cfg, table, rpm, g), 10 * cfg.radius)
                       ELSE max_friction(cfg)
             IN  [err |-> NoError, F |-> F0 * acc]

\* update(), the force that pushes the car: [err, F]
traction(cfg, table, acc, v, rpm, g, st) ==
    LET engine == acc > 0 \/ v < 0
    IN  IF engine /\ get_torque_error(cfg, table, rpm, g) # NoError
        THEN [err |-> get_torque_error(cfg, table, rpm, g), F |-> 0]
        ELSE IF engine /\ cfg.radius = 0
        THEN [err |-> Error("ZeroDivisionError"), F |-> 0]
        ELSE LET F0 == IF engine
                       THEN RoundDiv(get_torque(cfg, table, rpm, g), 10 * cfg.radius)
                       ELSE max_friction(cfg)
                 F1 == F0 * acc
             IN  [err |-> NoError,
                  F |-> IF is_shifting(st) /\ acc > 0 THEN 0 ELSE F1]

\* update(), the aerodynamic drag Fd in newtons
drag(cfg, v) ==
    RoundDiv(AIR_DENSITY_MILLI * v * v * cfg.front_area * cfg.drag_coefficient,
             2 * 1000 * 100)

\* update(), self.velocity after "self.velocity += a * deltaTime"
integrate(cfg, v, F, deltaTime) == v + RoundDiv(F * deltaTime, cfg.mass)

\* Player._update_rpm: the new self.engine_RPM (wheel radius not 0)
update_rpm(cfg, v, g) ==
    clamp(RoundDiv(v * ListAt(transmission(cfg), g) * cfg.transmission_base
                     * SECONDS_IN_MINUTE * RPM_SCALE * PI_DEN,
                   2 * cfg.radius * PI_NUM * 10),
          cfg.min_rpm * RPM_SCALE, cfg.max_rpm * RPM_SCALE)

\* shift_gears, the downshift test
\*   engine_RPM < 0.9 * max_RPM * transmission[gear] / transmission[gear - 1]
\* for positive ratios
downshift_due(cfg, rpm, g) ==
    rpm * 10 * ListAt(transmission(cfg), g - 1)
        < 9 * cfg.max_rpm * RPM_SCALE * ListAt(transmission(cfg), g)

\* A variant of shift_gears that upshifts only above the rev limit
shift_gears_strict(cfg, rpm, g, st, deltaTime) ==
    IF is_shifting(st)
    THEN [err |-> NoError, gear |-> g, shift_time |-> st - deltaTime]
    ELSE IF rpm > cfg.max_rpm * RPM_SCALE /\ g < Len(cfg.transmission)
    THEN [err |-> NoError, gear |-> g + 1,
          shift_time |-> cfg.transmission_shift_time]
    ELSE IF ~IndexOk(Len(transmission(cfg)), g)
            \/ ~IndexOk(Len(transmission(cfg)), g - 1)
    THEN [err |-> Error("IndexError"), gear |-> g, shift_time |-> st]
    ELSE IF ListAt(transmission(cfg), g - 1) = 0
    THEN [err |-> Error("ZeroDivisionError"), gear |-> g, shift_time |-> st]
    ELSE IF downshift_due(cfg, rpm, g)
    THEN [err |-> NoError, gear |-> g - 1,
          shift_time |-> cfg.transmission_shift_time]
    ELSE [err |-> NoError, gear |-> g, shift_time |-> st]

\* A variant of shift_gears that leaves the shift timer alone during a gear
\* change
shift_gears_stuck(cfg, rpm, g, st, deltaTime) ==
    IF is_shifting(st)
    THEN [err |-> NoError, gear |-> g, shift_time |-> st]
    ELSE IF rpm >= cfg.max_rpm * RPM_SCALE /\ g < Len(cfg.transmission)
    THEN [err |-> NoError, gear |-> g + 1,
          shift_time |-> cfg.transmission_shift_time]
    ELSE IF ~IndexOk(Len(transmission(cfg)), g)
            \/ ~IndexOk(Len(transmission(cfg)), g - 1)
    THEN [err |-> Error("IndexError"), gear |-> g, shift_time |-> st]
    ELSE IF ListAt(transmission(cfg), g - 1) = 0
    THEN [err |-> Error("ZeroDivisionError"), gear |-> g, shift_time |-> st]
    ELSE IF downshift_due(cfg, rpm, g)
    THEN [err |-> NoError, gear |-> g - 1,
          shift_time |-> cfg.transmission_shift_time]
    ELSE [err |-> NoError, gear |-> g, shift_time |-> st]

\* A variant of shift_gears that also tests for a downshift while a gear
\* change is under way
shift_gears_eager(cfg, rpm, g, st, deltaTime) ==
    IF is_shifting(st)
    THEN [err |-> NoError,
          gear |-> IF g > 1 /\ downshift_due(cfg, rpm, g) THEN g - 1 ELSE g,
          shift_time |-> st - deltaTime]
    ELSE IF rpm >= cfg.max_rpm * RPM_SCALE /\ g < Len(cfg.transmission)
    THEN [err |-> NoError, gear |-> g + 1,
          shift_time |-> cfg.transmission_shift_time]
    ELSE IF ~IndexOk(Len(transmission(cfg)), g)
            \/ ~IndexOk(Len(transmission(cfg)), g - 1)
    THEN [err |-> Error("IndexError"), gear |-> g, shift_time |-> st]
    ELSE IF ListAt(transmission(cfg), g - 1) = 0
    THEN [err |-> Error("ZeroDivisionError"), gear |-> g, shift_time |-> st]
    ELSE IF downshift_due(cfg, rpm, g)
    THEN [err |-> NoError, gear |-> g - 1,
          shift_time |-> cfg.transmission_shift_time]
    ELSE [err |-> NoError, gear |-> g, shift_time |-> st]

\* Player.shift_gears: [err, gear, shift_time]
shift_gears(cfg, rpm, g, st, deltaTime) ==
    IF is_shifting(st)
    THEN [err |-> NoError, gear |-> g, shift_time |-> st - deltaTime]
    ELSE IF rpm >= cfg.max_rpm * RPM_SCALE /\ g < Len(cfg.transmission)
    THEN [err |-> NoError, gear |-> g + 1,
          shift_time |-> cfg.transmission_shift_time]
    ELSE IF ~IndexOk(Len(transmission(cfg)), g)
            \/ ~IndexOk(Len(transmission(cfg)), g - 1)
    THEN [err |-> Error("IndexError"), gear |-> g, shift_time |-> st]
    ELSE IF ListAt(transmission(cfg), g - 1) = 0
    THEN [err |-> Error("ZeroDivisionError"), gear |-> g, shift_time |-> st]
    ELSE IF downshift_due(cfg, rpm, g)
    THEN [err |-> NoError, gear |-> g - 1,
          shift_time |-> cfg.transmission_shift_time]
    ELSE [err |-> NoError, gear |-> g, shift_time |-> st]

------------------------------------------------------------------------------
(* Position and heading *)

\* update(), the change of posX
deltaX(a, v, deltaTime) ==
    RoundDiv(-SinDeg(a) * v * deltaTime * PPM_NUM, 1000 * PPM_DEN)

\* update(), the change of posY
deltaY(a, v, deltaTime) ==
    RoundDiv(-CosDeg(a) * v * deltaTime * PPM_NUM, 1000 * PPM_DEN)

\* A variant of the steering block that turns the car whenever it is not
\* steered to the right
steer_unsigned(cfg, v, a, direction, deltaTime) ==
    IF max_friction(cfg) = 0
    THEN [err |-> Error("ZeroDivisionError"), angle |-> a]
    ELSE LET wheelbase == cfg.wheelbase
             sign == IF direction < 0 THEN -1 ELSE 1
             R == RoundDiv(10 * cfg.mass * v * v, max_friction(cfg))
             wide == R > wheelbase
             turning_angle == IF wide THEN AsinDeg(wheelbase, R) ELSE 90
             limited == turning_angle > cfg.max_turning_angle
             actualR == IF limited
                        THEN RoundDiv(SinDeg(cfg.max_turning_angle) * wheelbase, 1000)
                        ELSE R
         IN  IF ~wide /\ ~limited
             THEN [err |-> Error("UnboundLocalError"), angle |-> a]
             ELSE IF actualR = 0
             THEN [err |-> Error("ZeroDivisionError"), angle |-> a]
             ELSE [err |-> NoError,
                   angle |-> a + RoundDiv(sign * v * 10 * 180 * PI_DEN * deltaTime,
                                          PI_NUM * actualR)]

\* update(), the steering block: [err, angle]
steer(cfg, v, a, direction, deltaTime) ==
    IF direction = 0 THEN [err |-> NoError, angle |-> a]
    ELSE IF max_friction(cfg) = 0
    THEN [err |-> Error("ZeroDivisionError"), angle |-> a]
    ELSE LET wheelbase == cfg.wheelbase
             R == RoundDiv(10 * cfg.mass * v * v, max_friction(cfg))
             wide == R > wheelbase
             turning_angle == IF wide THEN AsinDeg(wheelbase, R) ELSE 90
             limited == turning_angle > cfg.max_turning_angle
             actualR == IF limited
                        THEN RoundDiv(SinDeg(cfg.max_turning_angle) * wheelbase, 1000)
                        ELSE R
         IN  IF ~wide /\ ~limited
             THEN [err |-> Error("UnboundLocalError"), angle |-> a]
             ELSE IF actualR = 0
             THEN [err |-> Error("ZeroDivisionError"), angle |-> a]
             ELSE [err |-> NoError,
                   angle |-> a + RoundDiv(direction * v * 10 * 180 * PI_DEN * deltaTime,
                                          PI_NUM * actualR)]

------------------------------------------------------------------------------
(* The tick *)

\* the fields of the Player that update() reads and writes
vehicle ==
    [velocity |-> velocity, engine_RPM |-> engine_RPM, gear |-> gear,
     shift_time |-> shift_time, posX |-> posX, posY |-> posY, angle |-> angle]

\* Player.update(deltaTime) as a function of the Player it is called on: the
\* fields it leaves in the vehicle s driven with the intents acc and rot, and
\* the exception that interrupted it (err)
tick(cfg, table, s, acc, rot, deltaTime) ==
    LET tr == traction(cfg, table, acc, s.velocity, s.engine_RPM, s.gear,
                       s.shift_time)
        v1 == integrate(cfg, s.velocity, tr.F - drag(cfg, s.velocity), deltaTime)
        rpm1 == update_rpm(cfg, v1, s.gear)
        sh == shift_gears(cfg, rpm1, s.gear, s.shift_time, deltaTime)
        x1 == s.posX + deltaX(s.angle, v1, deltaTime)
        y1 == s.posY + deltaY(s.angle, v1, deltaTime)
        st == steer(cfg, v1, s.angle, rot, deltaTime)
        interrupted(err) == [err |-> err] @@ s
    IN  IF tr.err # NoError THEN interrupted(tr.err)
        ELSE IF cfg.mass = 0 \/ cfg.radius = 0
        THEN interrupted(Error("ZeroDivisionError"))
        ELSE IF sh.err # NoError
        THEN [interrupted(sh.err) EXCEPT !.velocity = v1, !.engine_RPM = rpm1]
        ELSE [err |-> st.err, velocity |-> v1, engine_RPM |-> rpm1,
              gear |-> sh.gear, shift_time |-> sh.shift_time,
              posX |-> x1, posY |-> y1, angle |-> st.angle]

\* what update() leaves behind, whether it returned or raised
Leave(err, v, rpm, g, st, x, y, a) ==
    /\ raised' = err
    /\ pc' = IF err = NoError THEN "alive" ELSE "raised"
    /\ velocity' = v /\ engine_RPM' = rpm /\ gear' = g /\ shift_time' = st
    /\ posX' = x /\ posY' = y /\ angle' = a

\* A variant of update() that takes the gear-shift decision first, on the
\* engine RPM of the previous tick, and computes the force, the velocity and
\* the engine RPM with the gear and the shift timer that come out of it
update_shift_first(deltaTime) ==
    /\ pc = "alive"
    /\ ticks < MaxTicks
    /\ ticks' = ticks + 1
    /\ pre' = [deltaTime |-> deltaTime, velocity |-> velocity,
               engine_RPM |-> engine_RPM, gear |-> gear,
               shift_time |-> shift_time, angle |-> angle,
               posX |-> posX, posY |-> posY]
    /\ UNCHANGED <<configuration, containers, torque_interpolation,
                   power_interpolation>>
    /\ LET cfg == configuration
           sh == shift_gears(cfg, engine_RPM, gear, shift_time, deltaTime)
           tr == traction(cfg, torque_interpolation, acceleration', velocity,
                          engine_RPM, sh.gear, sh.shift_time)
       IN  IF sh.err # NoError
           THEN Leave(sh.err, velocity, engine_RPM, gear, shift_time, posX, posY, angle)
           ELSE IF tr.err # NoError
           THEN Leave(tr.err, velocity, engine_RPM, sh.gear, sh.shift_time,
                      posX, posY, angle)
           ELSE
           LET v1 == integrate(cfg, velocity, tr.F - drag(cfg, velocity), deltaTime)
               rpm1 == update_rpm(cfg, v1, sh.gear)
               x1 == posX + deltaX(angle, v1, deltaTime)
               y1 == posY + deltaY(angle, v1, deltaTime)
               st == steer(cfg, v1, angle, steering', deltaTime)
           IN  /\ Abs(v1) <= MaxVelocity
               /\ Leave(st.err, v1, rpm1, sh.gear, sh.shift_time, x1, y1, st.angle)

\* Player.update(deltaTime), run with the intents the driver has just set
update(deltaTime) ==
    /\ pc = "alive"
    /\ ticks < MaxTicks
    /\ ticks' = ticks + 1
    /\ pre' = [deltaTime |-> deltaTime, velocity |-> velocity,
               engine_RPM |-> engine_RPM, gear |-> gear,
               shift_time |-> shift_time, angle |-> angle,
               posX |-> posX, posY |-> posY]
    /\ UNCHANGED <<configuration, containers, torque_interpolation,
                   power_interpolation>>
    /\ LET cfg == configuration
           tr == traction(cfg, torque_interpolation, acceleration', velocity,
                          engine_RPM, gear, shift_time)
       IN  IF tr.err # NoError
           THEN Leave(tr.err, velocity, engine_RPM, gear, shift_time, posX, posY, angle)
           ELSE IF cfg.mass = 0 \/ cfg.radius = 0
           THEN Leave(Error("ZeroDivisionError"), velocity, engine_RPM, gear,
                      shift_time, posX, posY, angle)
           ELSE
           LET v1 == integrate(cfg, velocity, tr.F - drag(cfg, velocity), deltaTime)
               rpm1 == update_rpm(cfg, v1, gear)
               sh == shift_gears(cfg, rpm1, gear, shift_time, deltaTime)
               x1 == posX + deltaX(angle, v1, deltaTime)
               y1 == posY + deltaY(angle, v1, deltaTime)
               st == steer(cfg, v1, angle, steering', deltaTime)
           IN  /\ Abs(v1) <= MaxVelocity
               /\ IF sh.err # NoError
                  THEN Leave(sh.err, v1, rpm1, gear, shift_time, posX, posY, angle)
                  ELSE Leave(st.err, v1, rpm1, sh.gear, sh.shift_time, x1, y1, st.angle)

\* keystate[K_UP] - keystate[K_DOWN], keystate[K_LEFT] - keystate[K_RIGHT]
Intents == {-1, 0, 1}

\* Frame times: no time at all, one second, and two seconds (as long as the
\* longest gear change)
DeltaTimes == {0, 1, 2}

\* One frame of driving: the key state is turned into the two intents
\* (accelerate, rotate) and the next update() reads them with the time since
\* the last frame.  The intents may be set before the first update().
Frame(direction, rotation, deltaTime) ==
    /\ accelerate(direction)
    /\ rotate(rotation)
    /\ update(deltaTime)
    /\ UNCHANGED twin

Next ==
    \/ Construct
    \/ \E direction \in Intents, rotation \in Intents, deltaTime \in DeltaTimes :
          Frame(direction, rotation, deltaTime)

Spec == Init /\ [][Next]_vars

------------------------------------------------------------------------------
(* Two Players of the same configuration driven with the same inputs *)

\* a good vehicle, one whose update() can raise, one that cannot be built
TwinConfigs == {Truck, WideSteer, ShortPower}

\* the fields of the second Player that update() reads and writes
twin_vehicle ==
    [velocity |-> twin.velocity, engine_RPM |-> twin.engine_RPM,
     gear |-> twin.gear, shift_time |-> twin.shift_time,
     posX |-> twin.posX, posY |-> twin.posY, angle |-> twin.angle]

\* a second Player(configuration, screenrect) with the configuration of the
\* first
ConstructTwin ==
    /\ pc # "init"
    /\ twin.pc = "init"
    /\ containers' = containers \cup {"twin"}
    /\ twin' = [pc |-> IF interpolate_error(configuration) = NoError
                       THEN "alive" ELSE "failed",
                behind |-> FALSE,
                raised |-> interpolate_error(configuration),
                torque_interpolation |->
                    IF interpolate_error(configuration) = NoError
                    THEN build_torque(configuration) ELSE EmptyTable,
                power_interpolation |->
                    IF interpolate_error(configuration) = NoError
                    THEN build_power(configuration) ELSE EmptyTable,
                velocity |-> 0, engine_RPM |-> INITIAL_RPM * RPM_SCALE,
                gear |-> 1, shift_time |-> 0,
                posX |-> 0, posY |-> 0, angle |-> 0]
    /\ UNCHANGED <<pc, configuration, raised, angle, posX, posY, acceleration,
                   steering, velocity, engine_RPM, gear, shift_time,
                   torque_interpolation, power_interpolation, ticks, pre>>

\* the first Player is driven for one frame; the second has not yet been
\* given the same input
FrameLead(direction, rotation, deltaTime) ==
    /\ twin.pc = "alive"
    /\ ~twin.behind
    /\ accelerate(direction)
    /\ rotate(rotation)
    /\ update(deltaTime)
    /\ twin' = [twin EXCEPT !.behind = TRUE]

\* the second Player is given the input the first has just had:
\* accelerate, rotate, update(deltaTime)
FrameFollow ==
    /\ twin.behind
    /\ \E s1 \in {tick(configuration, twin.torque_interpolation, twin_vehicle,
                        acceleration, steering, pre.deltaTime)} :
          twin' = [twin EXCEPT !.behind = FALSE,
                               !.pc = IF s1.err = NoError THEN "alive" ELSE "raised",
                               !.raised = s1.err,
                               !.velocity = s1.velocity,
                               !.engine_RPM = s1.engine_RPM,
                               !.gear = s1.gear,
                               !.shift_time = s1.shift_time,
                               !.posX = s1.posX, !.posY = s1.posY,
                               !.angle = s1.angle]
    /\ UNCHANGED <<pc, configuration, containers, raised, angle, posX, posY,
                   acceleration, steering, velocity, engine_RPM, gear,
                   shift_time, torque_interpolation, power_interpolation, ticks,
                   pre>>

InitTwin == Init /\ configuration \in TwinConfigs

NextTwin ==
    \/ Construct
    \/ ConstructTwin
    \/ \E direction \in Intents, rotation \in Intents, deltaTime \in DeltaTimes :
          FrameLead(direction, rotation, deltaTime)
    \/ FrameFollow

SpecTwin == InitTwin /\ [][NextTwin]_vars

------------------------------------------------------------------------------
(* A vehicle whose torque table is read between two different entries *)

RevConfigs == {Peaky}

InitRev == configuration \in RevConfigs /\ NotConstructed

SpecRev == InitRev /\ [][Next]_vars

------------------------------------------------------------------------------
(* The gearbox over any number of ticks *)

ShiftConfigs == {Truck, Kart, SlowBox, LowIdle}

InitShift == configuration \in ShiftConfigs /\ NotConstructed

\* engine RPMs that _update_rpm can leave: clamp(x, min_RPM, max_RPM) of a
\* low, two middle and a high x
RevSamples(cfg) ==
    {clamp(x * RPM_SCALE, cfg.min_rpm * RPM_SCALE, cfg.max_rpm * RPM_SCALE) :
        x \in {0, 2000, 4000, 9000}}

\* frame times with a positive lower bound
PositiveDeltaTimes == DeltaTimes \ {0}

\* update(deltaTime) as the gearbox sees it: _update_rpm has stored some
\* clamped engine RPM and shift_gears(deltaTime) runs on it.  Velocity,
\* position and heading, which shift_gears does not read, are left out.
GearboxTick(rpm, deltaTime) ==
    /\ pc = "alive"
    /\ LET sh == shift_gears(configuration, rpm, gear, shift_time, deltaTime)
       IN  /\ engine_RPM' = rpm
           /\ gear' = sh.gear
           /\ shift_time' = sh.shift_time
           /\ raised' = sh.err
           /\ pc' = IF sh.err = NoError THEN "alive" ELSE "raised"
    /\ pre' = [pre EXCEPT !.deltaTime = deltaTime, !.engine_RPM = engine_RPM,
                          !.gear = gear, !.shift_time = shift_time]
    /\ UNCHANGED <<configuration, containers, angle, posX, posY, acceleration,
                   steering, velocity, torque_interpolation,
                   power_interpolation, ticks, twin>>

NextShift ==
    \/ Construct
    \/ \E rpm \in RevSamples(configuration), deltaTime \in PositiveDeltaTimes :
          GearboxTick(rpm, deltaTime)

\* the game loop calls update() in every frame
FairSpecShift == InitShift /\ [][NextShift]_vars /\ WF_vars(NextShift)

------------------------------------------------------------------------------
(* Properties of the gearbox and the engine *)

\* __init__ has returned a Player (update() may since have raised)
Constructed == pc \in {"alive", "raised"}

\* the latest update() ran through its velocity, RPM and gearbox steps
Ticked == ticks > 0 /\ pc = "alive"

TopGear == Len(configuration.transmission)

\* C1: in every state reachable from construction by update() ticks the
\* current gear is within 1..top gear: no downshift leaves gear 1 and no
\* upshift leaves the top gear.
\* shift_gears has no "gear > 1" test before "self.gear -= 1": a vehicle
\* whose idle speed is below 0.9 * max_rpm * ratio[1] / 100 shifts down from
\* gear 1 on its first tick.
C1_GearInRange == Constructed => gear \in 1..TopGear

\* C2: the shift timer is never negative: a tick that takes the timer to or
\* below zero leaves it at exactly 0.
\* shift_gears subtracts deltaTime and stores the difference as it is.
C2_ShiftTimeNonNegative == Constructed => shift_time >= 0

\* C3: the engine RPM lies in [min_rpm, max_rpm] in every reachable state,
\* the freshly constructed vehicle included.
\* __init__ stores 5000 without clamping it.
C3_RpmInRange ==
    Constructed =>
        /\ configuration.min_rpm * RPM_SCALE <= engine_RPM
        /\ engine_RPM <= configuration.max_rpm * RPM_SCALE

\* C4: once construction has succeeded update() never raises, for any
\* sequence of acceleration and steering intents and deltaTime >= 0.
\* torque_interpolation[int(5000)] is out of range on the first throttled
\* tick of a vehicle whose max_rpm is below 4999.
C4_UpdateNeverRaises == pc # "raised"

\* C5: a tick evaluated while Engaged that finds engine_RPM >= max_rpm with
\* the gear below the top gear ends with the gear one higher and the shift
\* timer equal to transmission_shift_time.
C5_UpshiftAtRevLimit ==
    ( /\ Ticked
      /\ ~is_shifting(pre.shift_time)
      /\ engine_RPM >= configuration.max_rpm * RPM_SCALE
      /\ pre.gear < TopGear )
    => /\ gear = pre.gear + 1
       /\ shift_time = configuration.transmission_shift_time
       /\ is_shifting(shift_time)

\* an engaged tick has just shifted up at the rev limit
C5_Witness ==
    /\ Ticked
    /\ ~is_shifting(pre.shift_time)
    /\ engine_RPM >= configuration.max_rpm * RPM_SCALE
    /\ pre.gear >= 1 /\ pre.gear < TopGear
    /\ gear = pre.gear + 1
    /\ shift_time = configuration.transmission_shift_time

\* C14: a tick that starts with shift_time > 0 leaves the gear as it was and
\* only takes deltaTime off the timer, whatever the engine RPM; hence a tick
\* that changes the gear started Engaged.
C14_NoGearChangeWhileShifting ==
    Ticked =>
        /\ is_shifting(pre.shift_time) =>
              /\ gear = pre.gear
              /\ shift_time = pre.shift_time - pre.deltaTime
        /\ gear # pre.gear => ~is_shifting(pre.shift_time)

\* a tick during a gear change has kept the gear although the engine RPM
\* was below the downshift threshold
C14_Witness ==
    /\ Ticked
    /\ is_shifting(pre.shift_time)
    /\ pre.gear > 1
    /\ downshift_due(configuration, engine_RPM, pre.gear)
    /\ gear = pre.gear
    /\ shift_time = pre.shift_time - pre.deltaTime

\* C16: every gear shift completes: when ticks keep coming with deltaTime
\* bounded below by a positive constant, a vehicle with shift_time > 0 is
\* eventually not shifting any more, and each tick until then makes the
\* timer strictly smaller.
C16_ShiftCompletes ==
    /\ [][is_shifting(shift_time) => shift_time' < shift_time]_vars
    /\ is_shifting(shift_time) ~> ~is_shifting(shift_time)

\* a gear change that took more than one tick has just completed
C16_Witness ==
    /\ pc = "alive"
    /\ is_shifting(pre.shift_time)
    /\ pre.shift_time < configuration.transmission_shift_time
    /\ ~is_shifting(shift_time)
    /\ gear > 1

------------------------------------------------------------------------------
(* Properties of the forces *)

\* the velocity the latest tick computes from a drive force F
VelocityFrom(F) ==
    integrate(configuration, pre.velocity, F - drag(configuration, pre.velocity),
              pre.deltaTime)

\* the drive force of the latest tick had the vehicle been Engaged
EngagedForce ==
    traction(configuration, torque_interpolation, acceleration, pre.velocity,
             pre.engine_RPM, pre.gear, 0).F

\* C6: a tick that starts Shifting with acceleration intent > 0 has drive
\* force 0, so only the drag acts and the velocity does not increase; with
\* acceleration intent <= 0 the force is the one of an Engaged vehicle.
C6_NoDriveWhileShifting ==
    (Ticked /\ is_shifting(pre.shift_time))
    => IF acceleration > 0
       THEN /\ velocity = VelocityFrom(0)
            /\ velocity <= pre.velocity
       ELSE velocity = VelocityFrom(EngagedForce)

\* a throttled tick during a gear change has lost speed to the drag
C6_Witness ==
    /\ Ticked
    /\ is_shifting(pre.shift_time)
    /\ acceleration > 0
    /\ pre.deltaTime > 0
    /\ pre.velocity > 0
    /\ velocity < pre.velocity

\* the latest tick took its drive force from the engine and the drivetrain
\* was not disengaged by a gear change
EngineDrives ==
    /\ Ticked
    /\ acceleration > 0 \/ pre.velocity < 0
    /\ ~(is_shifting(pre.shift_time) /\ acceleration > 0)

\* torque_table[index] * gear_ratio[gear] * transmission_base / wheel_radius
\* * acceleration_intent for the latest tick
DriveForceAt(index) ==
    RoundDiv(TableAt(torque_interpolation, index)
                 * ListAt(transmission(configuration), pre.gear)
                 * configuration.transmission_base,
             10 * configuration.radius) * acceleration

\* C13 (as the code has it): when acceleration intent > 0 or velocity < 0,
\* and the vehicle is not Shifting with positive throttle, the drive force of
\* the tick is torque_table[i] * gear_ratio[gear] * transmission_base /
\* wheel_radius * acceleration_intent with i the engine RPM truncated to a
\* whole number (Python's int()), not rounded to the nearest one.
C13_DriveForceTruncatedRpm ==
    EngineDrives
    => velocity = VelocityFrom(DriveForceAt(pre.engine_RPM \div RPM_SCALE))

\* C13 (as stated): the same with the torque table indexed at the engine RPM
\* rounded to the nearest integer.
C13_DriveForceRoundedRpm ==
    EngineDrives => velocity = VelocityFrom(DriveForceAt(round(pre.engine_RPM)))

\* a throttled tick has read the torque table at an engine RPM whose fraction
\* is above one half, where the entry below and the entry above differ
C13_Witness ==
    /\ EngineDrives
    /\ pre.deltaTime > 0
    /\ 2 * (pre.engine_RPM % RPM_SCALE) > RPM_SCALE
    /\ TableAt(torque_interpolation, pre.engine_RPM \div RPM_SCALE)
         # TableAt(torque_interpolation, pre.engine_RPM \div RPM_SCALE + 1)
    /\ velocity = VelocityFrom(DriveForceAt(pre.engine_RPM \div RPM_SCALE))

\* C7: with acceleration intent 0 and steering intent 0, from any nonzero
\* velocity and for any deltaTime >= 0, |velocity| does not increase over a
\* tick and the velocity does not change sign.  (The strict decrease for
\* deltaTime > 0 is not stated here: on the integer grid a small loss rounds
\* to none.)
\* update() subtracts the drag whatever the direction of travel, so a car
\* that rolls backwards is pushed further backwards.
C7_CoastingDecays ==
    (Ticked /\ acceleration = 0 /\ steering = 0 /\ pre.velocity # 0)
    => /\ Abs(velocity) <= Abs(pre.velocity)
       /\ velocity * pre.velocity >= 0

\* the drive force of the latest tick, from the gear, the engine RPM and the
\* shift timer the tick started with
StartForce ==
    traction(configuration, torque_interpolation, acceleration, pre.velocity,
             pre.engine_RPM, pre.gear, pre.shift_time).F

\* the decision shift_gears takes on the engine RPM the latest tick has
\* computed, from the gear and the shift timer the tick started with
ShiftDecision ==
    shift_gears(configuration, engine_RPM, pre.gear, pre.shift_time,
                pre.deltaTime)

\* C15: within a tick the velocity is integrated first (with the force of the
\* gear, RPM and shift timer the tick started with), the engine RPM is then
\* recomputed from the new velocity with the gear the tick started with, and
\* only then is the gear-shift decision taken, on the new RPM; a gear change
\* or lockout started in a tick has no effect on that tick's force and
\* velocity.
C15_VelocityThenRpmThenShift ==
    Ticked =>
        /\ velocity = VelocityFrom(StartForce)
        /\ engine_RPM = update_rpm(configuration, velocity, pre.gear)
        /\ gear = ShiftDecision.gear
        /\ shift_time = ShiftDecision.shift_time

\* a throttled tick has gained speed and then started a gear change: its
\* engine RPM is the one of the old gear, not of the new one
C15_Witness ==
    /\ Ticked
    /\ acceleration > 0
    /\ ~is_shifting(pre.shift_time)
    /\ velocity > pre.velocity
    /\ gear = pre.gear + 1
    /\ is_shifting(shift_time)
    /\ engine_RPM = update_rpm(configuration, velocity, pre.gear)
    /\ engine_RPM # update_rpm(configuration, velocity, gear)

\* C17: a vehicle at rest stays at rest without throttle: a tick from
\* velocity 0 with acceleration intent 0 leaves the velocity at 0 and the
\* position and the heading unchanged, for any deltaTime >= 0 and any
\* steering intent.
C17_RestStaysAtRest ==
    (ticks > 0 /\ pre.velocity = 0 /\ acceleration = 0)
    => /\ velocity = 0
       /\ posX = pre.posX /\ posY = pre.posY
       /\ angle = pre.angle

\* a standing car has been steered for a second tick without throttle
C17_Witness ==
    /\ Ticked
    /\ ticks >= 2
    /\ pre.velocity = 0
    /\ acceleration = 0
    /\ steering # 0
    /\ pre.deltaTime > 0
    /\ velocity = 0
    /\ angle = pre.angle

------------------------------------------------------------------------------
(* Properties of the heading *)

\* C8: a tick with steering intent 0 leaves the heading exactly as it was,
\* whatever the velocity, acceleration intent, gear, shift state and deltaTime.
C8_NoSteeringNoTurn == (ticks > 0 /\ steering = 0) => angle = pre.angle

\* an unsteered tick of a moving car whose heading has been turned before
C8_Witness ==
    /\ Ticked
    /\ steering = 0
    /\ velocity # 0
    /\ pre.deltaTime > 0
    /\ pre.angle # 0
    /\ angle = pre.angle

------------------------------------------------------------------------------
(* Properties of the construction *)

SampleMismatch ==
    Len(configuration.torque_samples) # Len(configuration.power_samples)

\* C9: constructing a vehicle whose torque_samples and power_samples differ
\* in length fails with an error whose message names the vehicle, and no
\* curve table is built; with equal lengths no such error is raised.
C9_MismatchRejected ==
    pc # "init" =>
        IF SampleMismatch
        THEN /\ pc = "failed"
             /\ raised.type = "Exception"
             /\ raised.message[1] = configuration.full_name
             /\ torque_interpolation = EmptyTable
             /\ power_interpolation = EmptyTable
        ELSE /\ pc # "failed"
             /\ raised.type # "Exception"

\* the constructor has rejected a vehicle that has more torque than power
\* samples
C9_Witness ==
    /\ pc = "failed"
    /\ Len(configuration.torque_samples) > Len(configuration.power_samples)
    /\ raised = ConfigError(configuration)

\* C12: for a configuration with equally many torque and power samples the
\* torque table and the power table both have exactly max_rpm + 1 entries,
\* one for each whole RPM from 0 to max_rpm.
C12_TablesCoverRevRange ==
    (pc # "init" /\ ~SampleMismatch)
    => /\ torque_interpolation.n = configuration.max_rpm + 1
       /\ power_interpolation.n = configuration.max_rpm + 1
       /\ \A table \in {torque_interpolation, power_interpolation} :
            /\ IndexOk(table.n, 0)
            /\ IndexOk(table.n, configuration.max_rpm)
            /\ ~IndexOk(table.n, configuration.max_rpm + 1)

\* the tables of a vehicle that revs to 4000 have been built
C12_Witness ==
    /\ pc = "alive"
    /\ ~SampleMismatch
    /\ configuration.max_rpm = 4000
    /\ torque_interpolation.n = 4001
    /\ power_interpolation.n = 4001

\* C10: when construction fails no partially constructed vehicle is left
\* observable: the half-built vehicle is not in the shared sprite group.
\* __init__ registers the sprite in Player.containers on its first line,
\* before the samples are compared.
C10_FailedNotRegistered == pc = "failed" => "player" \notin containers

------------------------------------------------------------------------------
(* Properties of two Players *)

====
